---- MODULE Spec2Model ----
(***************************************************************************)
(* Storage engine of sql_rs: the slotted page (backend/page.rs), the pager *)
(* with its write-through cache and B+tree split propagation               *)
(* (backend/pager.rs), and the table / database facade (backend/table.rs,  *)
(* backend/database.rs).  Pages are modelled byte for byte: `data` is the  *)
(* 4096-byte array of the page, the header and the cell-pointer vector are *)
(* the in-memory copies the code keeps next to it.                         *)
(***************************************************************************)
EXTENDS Integers, Sequences, FiniteSets, Bags, TLC

(***************************************************************************)
(* Program constants                                                       *)
(***************************************************************************)
PAGE_SIZE == 4096
PAGE_HEADER_SIZE == 12
TABLE_MAX_PAGES == 100
INVALID_PAGE_NUM == TABLE_MAX_PAGES
CELL_PTR_BYTE_SIZE == 2
Leaf == 13
Interior == 5

(***************************************************************************)
(* Bounds of the model                                                     *)
(***************************************************************************)
\* keys offered to insert are 1..MaxKey
MaxKey == 4
\* values an uninitialised 4-byte field may be read as are 0..MaxGarbage
MaxGarbage == 2
\* keys offered to the single page of PageSpec are 1..MaxPageKey
MaxPageKey == 3
\* inserts are offered while the pager counts at most MaxPages pages
MaxPages == 3

\* payload lengths offered to insert: three cells of the first, or one cell of
\* the second, fill a leaf to within a few bytes of the pointer array
PayloadLens == {1006, 2030}

Keys == 1..MaxKey
Garbage == 0..MaxGarbage

(***************************************************************************)
(* Bytes.  A byte is 0..255, or U for a byte of a page array that was      *)
(* never written (create_uninit_page_bytes).  A byte string, and so the    *)
(* 4096-byte array of a page, is kept run-length encoded: a sequence of    *)
(* runs <<byte, count>> in which neighbouring runs hold different bytes,   *)
(* so that equal byte strings are equal values.  Unsigned values are kept  *)
(* exactly below 2^24 and collapse to Sat from there on: no key or page    *)
(* number of the model is that large, so Sat only ever stands for "a value *)
(* larger than every key and every page number".                           *)
(***************************************************************************)
U == -1
Sat == 256 * 256 * 256

\* concatenation of two byte strings
RCat(a, b) ==
    IF a = <<>> THEN b
    ELSE IF b = <<>> THEN a
    ELSE IF a[Len(a)][1] = b[1][1]
    THEN SubSeq(a, 1, Len(a) - 1) \o << <<b[1][1], a[Len(a)][2] + b[1][2]>> >> \o Tail(b)
    ELSE a \o b

\* the byte string made of count bytes b
Rep(b, count) == IF count <= 0 THEN <<>> ELSE << <<b, count>> >>

RECURSIVE Runs(_)
\* the byte string of an explicit sequence of bytes
Runs(s) == IF s = <<>> THEN <<>> ELSE RCat(Rep(s[1], 1), Runs(Tail(s)))

RECURSIVE RLen(_)
\* length in bytes
RLen(bs) == IF bs = <<>> THEN 0 ELSE bs[1][2] + RLen(Tail(bs))

RECURSIVE RAt(_, _)
\* bs[i], i counted from 0
RAt(bs, i) == IF i < bs[1][2] THEN bs[1][1] ELSE RAt(Tail(bs), i - bs[1][2])

RECURSIVE RTake(_, _)
\* bs[..n]
RTake(bs, n) ==
    IF n <= 0 \/ bs = <<>> THEN <<>>
    ELSE IF bs[1][2] <= n THEN <<bs[1]>> \o RTake(Tail(bs), n - bs[1][2])
    ELSE << <<bs[1][1], n>> >>

RECURSIVE RDrop(_, _)
\* bs[n..]
RDrop(bs, n) ==
    IF n <= 0 \/ bs = <<>> THEN bs
    ELSE IF bs[1][2] <= n THEN RDrop(Tail(bs), n - bs[1][2])
    ELSE << <<bs[1][1], bs[1][2] - n>> >> \o Tail(bs)

\* data[off .. off + n) as a byte string
Slice(data, off, n) == RTake(RDrop(data, off), n)

\* data[off .. off + n) as an explicit sequence of bytes
Field(data, off, n) == [k \in 1..n |-> RAt(data, off + k - 1)]

\* data[off .. off + RLen(bs)) := bs
WriteBytes(data, off, bs) ==
    RCat(RCat(RTake(data, off), bs), RDrop(data, off + RLen(bs)))

Pow256(e) == IF e = 0 THEN 1 ELSE IF e = 1 THEN 256 ELSE 65536

\* v.to_be_bytes() for an n-byte unsigned v < 2^24
ToBE(v, n) == [k \in 1..n |-> IF n - k >= 3 THEN 0 ELSE (v \div Pow256(n - k)) % 256]

\* v.to_le_bytes() for a u16
ToLE16(v) == <<v % 256, v \div 256>>

RECURSIVE FromBE(_)
\* uN::from_be_bytes
FromBE(bs) ==
    IF bs = <<>> THEN 0
    ELSE LET hi == FromBE(SubSeq(bs, 1, Len(bs) - 1)) IN
         IF hi >= 65536 THEN Sat ELSE hi * 256 + bs[Len(bs)]

\* what the build reads from a field holding uninitialised bytes: each such byte
\* is the corresponding byte of the garbage value g
Resolve(bs, g) == [k \in 1..Len(bs) |-> IF bs[k] = U THEN ToBE(g, Len(bs))[k] ELSE bs[k]]

ReadBE(data, off, n, g) == FromBE(Resolve(Field(data, off, n), g))

\* Option<u32>: <<>> is None, <<n>> is Some(n)
None == <<>>
Some(n) == <<n>>

(***************************************************************************)
(* Cell codec (DBCell)                                                     *)
(***************************************************************************)
CELL_PREFIX_SIZE == 14

\* DBCell::new(key, payload, left_child) converted to bytes
EncodeCell(key, payload, left_child) ==
    RCat(RCat(Runs(ToBE(RLen(payload) % 65536, 2) \o ToBE(key, 8)), payload),
         Runs(ToBE(IF left_child = None THEN INVALID_PAGE_NUM ELSE left_child[1], 4)))

\* DBCell::try_from(&data[off..])
DecodeCell(data, off, g) ==
    LET avail == PAGE_SIZE - off
        ps    == ReadBE(data, off, 2, g)
    IN  IF off > PAGE_SIZE \/ avail < CELL_PREFIX_SIZE \/ CELL_PREFIX_SIZE + ps > avail
        THEN [ok |-> FALSE]
        ELSE [ok |-> TRUE,
              payload_size |-> ps,
              key |-> ReadBE(data, off + 2, 8, g),
              payload |-> Slice(data, off + 10, ps),
              left_child |-> ReadBE(data, off + 10 + ps, 4, g)]

\* DBCell::id_from_slice(&data[off..])
IdFromSlice(data, off, g) ==
    IF PAGE_SIZE - off < 10 THEN [ok |-> FALSE]
    ELSE [ok |-> TRUE, key |-> ReadBE(data, off + 2, 8, g)]

(***************************************************************************)
(* Cell codec of db_cell.rs (LeafCell)                                     *)
(***************************************************************************)
PAYLOAD_SIZE_SIZE == 2
ID_SIZE == 8
LEFT_CHILD_SIZE == 4

\* a LeafCell value that stands for "no cell"
NoCell == [payload_size |-> 0, id |-> 0, data |-> <<>>, left_child |-> 0]

\* LeafCell::new(serializable_data), data being the bytes it converts to
LeafCellNew(data) ==
    [payload_size |-> (RLen(data) + ID_SIZE + LEFT_CHILD_SIZE) % 65536,
     id |-> 0,
     data |-> data,
     left_child |-> 0]

\* From<LeafCell> for Rc<[u8]>
LeafCellBytes(leaf_cell) ==
    RCat(RCat(Runs(ToBE(leaf_cell.payload_size, PAYLOAD_SIZE_SIZE) \o ToBE(leaf_cell.id, ID_SIZE)),
              leaf_cell.data),
         Runs(ToBE(leaf_cell.left_child, LEFT_CHILD_SIZE)))

\* a decoder that checks the declared payload against the input and forgets the
\* four bytes of left_child after it
LeafCellTryFromLoose(bytes) ==
    IF RLen(bytes) < PAYLOAD_SIZE_SIZE + ID_SIZE + LEFT_CHILD_SIZE
    THEN [ok |-> FALSE, cell |-> NoCell]
    ELSE
    LET payload_size == FromBE(Field(bytes, 0, PAYLOAD_SIZE_SIZE))
        offset == PAYLOAD_SIZE_SIZE + ID_SIZE
    IN  IF offset + payload_size > RLen(bytes)
        THEN [ok |-> FALSE, cell |-> NoCell]
        ELSE [ok |-> TRUE,
              cell |-> [payload_size |-> payload_size,
                        id |-> FromBE(Field(bytes, PAYLOAD_SIZE_SIZE, ID_SIZE)),
                        data |-> Slice(bytes, offset, payload_size),
                        left_child |-> 0]]

\* TryFrom<&[u8]> for LeafCell
LeafCellTryFrom(bytes) ==
    IF RLen(bytes) < PAYLOAD_SIZE_SIZE + ID_SIZE + LEFT_CHILD_SIZE
    THEN [ok |-> FALSE, cell |-> NoCell]
    ELSE
    LET payload_size == FromBE(Field(bytes, 0, PAYLOAD_SIZE_SIZE))
        offset == PAYLOAD_SIZE_SIZE + ID_SIZE
    IN  IF offset + payload_size + LEFT_CHILD_SIZE > RLen(bytes)
        THEN [ok |-> FALSE, cell |-> NoCell]
        ELSE [ok |-> TRUE,
              cell |-> [payload_size |-> payload_size,
                        id |-> FromBE(Field(bytes, PAYLOAD_SIZE_SIZE, ID_SIZE)),
                        data |-> Slice(bytes, offset, payload_size),
                        left_child |-> FromBE(Field(bytes, offset + payload_size, LEFT_CHILD_SIZE))]]

(***************************************************************************)
(* Page                                                                    *)
(***************************************************************************)
\* a set_num_cells that writes the bytes of the header and leaves the field alone
SetNumCellsBytesOnly(page, val) ==
    [page EXCEPT !.data = WriteBytes(page.data, 3, Runs(ToBE(val, 2)))]

\* PageHeader::set_num_cells
SetNumCells(page, val) ==
    [page EXCEPT !.header.num_cells = val,
                 !.data = WriteBytes(page.data, 3, Runs(ToBE(val, 2)))]

\* PageHeader::set_cells_start
SetCellsStart(page, val) ==
    [page EXCEPT !.header.cells_start = val,
                 !.data = WriteBytes(page.data, 5, Runs(ToBE(val, 2)))]

\* Page::set_right_pointer
SetRightPointer(page, val) ==
    [page EXCEPT !.header.right_pointer = val,
                 !.data = WriteBytes(page.data, 8, Runs(ToBE(val, 4)))]

RECURSIVE PointerBytes(_)
\* the entries of the cell-pointer vector, two little-endian bytes each
PointerBytes(cpa) == IF cpa = <<>> THEN <<>> ELSE ToLE16(cpa[1]) \o PointerBytes(Tail(cpa))

\* CellPtrArray::write_pointer_array: every entry, little-endian, from byte 12
WritePointerArray(page) ==
    [page EXCEPT !.data =
        WriteBytes(page.data, PAGE_HEADER_SIZE, Runs(PointerBytes(page.cell_pointer_array)))]

\* Page::new
PageNew(page_type) ==
    LET blank == [header |-> [page_type |-> page_type, first_free_block |-> 0,
                              num_cells |-> 0, cells_start |-> 0,
                              fragmented_free_bytes |-> 0, right_pointer |-> 0],
                  data |-> WriteBytes(Rep(U, PAGE_SIZE), 0, Rep(page_type, 1)),
                  cell_pointer_array |-> <<>>]
    IN  SetRightPointer(SetCellsStart(blank, PAGE_SIZE % 65536), INVALID_PAGE_NUM)

\* Page::get_keys
GetKeys(page, g) ==
    LET ids == [i \in 1..Len(page.cell_pointer_array) |->
                    IdFromSlice(page.data, page.cell_pointer_array[i], g)]
    IN  IF \E i \in 1..Len(ids) : ~ids[i].ok THEN [ok |-> FALSE]
        ELSE [ok |-> TRUE, keys |-> [i \in 1..Len(ids) |-> ids[i].key]]

\* Page::get_last_key
GetLastKey(page, g) ==
    LET n == Len(page.cell_pointer_array) IN
    IF n = 0 THEN [res |-> "CannotGetFirstOrLastKey"]
    ELSE LET id == IdFromSlice(page.data, page.cell_pointer_array[n], g) IN
         IF id.ok THEN [res |-> "Ok", key |-> id.key] ELSE [res |-> "CorruptData"]

\* a find_partition that reports the position and never the key found there
FindPartitionBlind(page, new_key, g) ==
    LET ks == GetKeys(page, g) IN
    IF ~ks.ok THEN [res |-> "CorruptData"]
    ELSE [res |-> "Ok",
          partition |-> Cardinality({i \in 1..Len(ks.keys) :
                                        \A j \in 1..i : ks.keys[j] < new_key}),
          key |-> None]

\* a find_partition whose partition point is the first key that is > new_key
FindPartitionAfter(page, new_key, g) ==
    LET ks == GetKeys(page, g) IN
    IF ~ks.ok THEN [res |-> "CorruptData"]
    ELSE LET keys == ks.keys
             partition_key == Cardinality({i \in 1..Len(keys) :
                                  \A j \in 1..i : keys[j] <= new_key})
         IN  IF partition_key >= Len(keys)
             THEN [res |-> "Ok", partition |-> Len(keys), key |-> None]
             ELSE [res |-> "Ok", partition |-> partition_key,
                   key |-> Some(keys[partition_key + 1])]

\* Page::find_partition: index (from 0) of the first key that is not < new_key,
\* and that key if there is one
FindPartition(page, new_key, g) ==
    LET ks == GetKeys(page, g) IN
    IF ~ks.ok THEN [res |-> "CorruptData"]
    ELSE LET keys == ks.keys
             partition_key == Cardinality({i \in 1..Len(keys) :
                                  \A j \in 1..i : keys[j] < new_key})
         IN  IF partition_key >= Len(keys)
             THEN [res |-> "Ok", partition |-> Len(keys), key |-> None]
             ELSE [res |-> "Ok", partition |-> partition_key,
                   key |-> Some(keys[partition_key + 1])]

\* a vector insert that ignores the position and appends
VecInsertAtEnd(s, partition, v) == Append(s, v)

\* Vec::insert(partition, v), partition counted from 0
VecInsert(s, partition, v) ==
    SubSeq(s, 1, partition) \o <<v>> \o SubSeq(s, partition + 1, Len(s))

\* Vec::remove(partition), partition counted from 0
VecRemove(s, partition) ==
    SubSeq(s, 1, partition) \o SubSeq(s, partition + 2, Len(s))

\* Page::insert
PageInsert(page, key, payload, left_child, g) ==
    LET fp == FindPartition(page, key, g) IN
    IF fp.res # "Ok" THEN [page |-> page, res |-> fp.res]
    ELSE IF fp.key = Some(key) THEN [page |-> page, res |-> "DuplicateKey"]
    ELSE
    LET cell_bytes == EncodeCell(key, payload, left_child)
        old_cells_start == page.header.cells_start
        insert_position == old_cells_start - RLen(cell_bytes)
        end_of_ptr_array_after_insert ==
            PAGE_HEADER_SIZE + (page.header.num_cells + 1) * CELL_PTR_BYTE_SIZE
    IN  IF insert_position < 0
        \* usize subtraction below zero: the debug build panics on the subtraction,
        \* the release build on the slice data[insert_position..old_cells_start]
        THEN [page |-> page, res |-> "Panic"]
        ELSE IF insert_position <= end_of_ptr_array_after_insert
        THEN [page |-> SetCellsStart(page, 0), res |-> "PageFull"]
        ELSE
        LET written == [page EXCEPT !.data = WriteBytes(page.data, insert_position, cell_bytes)]
            headed  == SetNumCells(SetCellsStart(written, insert_position),
                                   (page.header.num_cells + 1) % 65536)
            pointed == [headed EXCEPT !.cell_pointer_array =
                            VecInsert(headed.cell_pointer_array, fp.partition, insert_position)]
        IN  [page |-> WritePointerArray(pointed), res |-> "Ok"]

\* Page::delete
PageDelete(page, cell_ptr_pos) ==
    LET cpa == page.cell_pointer_array
        n   == Len(cpa)
    IN  IF n = 0 THEN [page |-> page, res |-> "DeleteFromEmpty"]
        ELSE IF cell_ptr_pos >= n THEN [page |-> page, res |-> "Panic"]
        ELSE
        LET started == IF cell_ptr_pos % 65536 = cpa[n]
                       THEN SetCellsStart(page, IF n <= 2 THEN PAGE_SIZE % 65536 ELSE cpa[n - 1])
                       ELSE page
            counted == SetNumCells(started, page.header.num_cells - 1)
            removed == [counted EXCEPT !.cell_pointer_array = VecRemove(cpa, cell_ptr_pos)]
        IN  [page |-> WritePointerArray(removed), res |-> "Ok"]

\* an update_same_size that does not compare the payload length with the stored one
PageUpdateAnySize(page, key_index, key, payload, left_child, g) ==
    IF key_index >= Len(page.cell_pointer_array) THEN [page |-> page, res |-> "Panic"]
    ELSE
    LET partition_point == page.cell_pointer_array[key_index + 1]
        cell_to_modify  == DecodeCell(page.data, partition_point, g)
    IN  IF ~cell_to_modify.ok THEN [page |-> page, res |-> "CorruptData"]
        ELSE IF cell_to_modify.key # key THEN [page |-> page, res |-> "UpdateNotSameKey"]
        ELSE
        LET new_payload_bytes == EncodeCell(key, payload, left_child) IN
        IF PAGE_SIZE - partition_point # RLen(new_payload_bytes)
        THEN [page |-> page, res |-> "Panic"]
        ELSE [page |-> [page EXCEPT !.data =
                            WriteBytes(page.data, partition_point, new_payload_bytes)],
              res |-> "Ok"]

\* Page::update_same_size
PageUpdateSameSize(page, key_index, key, payload, left_child, g) ==
    IF key_index >= Len(page.cell_pointer_array) THEN [page |-> page, res |-> "Panic"]
    ELSE
    LET partition_point == page.cell_pointer_array[key_index + 1]
        cell_to_modify  == DecodeCell(page.data, partition_point, g)
    IN  IF ~cell_to_modify.ok THEN [page |-> page, res |-> "CorruptData"]
        ELSE IF cell_to_modify.key # key THEN [page |-> page, res |-> "UpdateNotSameKey"]
        ELSE IF cell_to_modify.payload_size # RLen(payload) % 65536
        THEN [page |-> page, res |-> "UpdateNotSameSize"]
        ELSE
        LET new_payload_bytes == EncodeCell(key, payload, left_child) IN
        \* data[partition_point..].copy_from_slice(..) panics unless the lengths agree
        IF PAGE_SIZE - partition_point # RLen(new_payload_bytes)
        THEN [page |-> page, res |-> "Panic"]
        ELSE [page |-> [page EXCEPT !.data =
                            WriteBytes(page.data, partition_point, new_payload_bytes)],
              res |-> "Ok"]

\* a move that deletes the last cell and forgets its left_child
MoveLastDropsChild(page, g) ==
    LET n == Len(page.cell_pointer_array) IN
    IF n = 0 THEN [page |-> page, res |-> "CannotGetFirstOrLastKey"]
    ELSE
    LET last_cell == DecodeCell(page.data, page.cell_pointer_array[n], g) IN
    IF ~last_cell.ok THEN [page |-> page, res |-> "CorruptData"]
    ELSE PageDelete(page, n - 1)

\* Page::move_last_left_child_to_right_pointer
MoveLastLeftChildToRightPointer(page, g) ==
    LET n == Len(page.cell_pointer_array) IN
    IF n = 0 THEN [page |-> page, res |-> "CannotGetFirstOrLastKey"]
    ELSE
    LET last_cell == DecodeCell(page.data, page.cell_pointer_array[n], g) IN
    IF ~last_cell.ok THEN [page |-> page, res |-> "CorruptData"]
    ELSE PageDelete(SetRightPointer(page, last_cell.left_child), n - 1)

\* Page::cells_iter: one decoded cell, or a failure, per cell pointer
CellsIter(page, g) ==
    [i \in 1..Len(page.cell_pointer_array) |->
        DecodeCell(page.data, page.cell_pointer_array[i], g)]

IsOk(r) == r.ok

RECURSIVE Distribute(_, _, _, _, _, _)
\* the loop of Page::split_page: cell i (from 0) goes left when i <= num_cells / 2
Distribute(cells, i, num_cells, left_split, right_split, g) ==
    IF i >= Len(cells) THEN [left |-> left_split, right |-> right_split, res |-> "Ok"]
    ELSE
    LET cell == cells[i + 1]
        into_left == i <= num_cells \div 2
        r == PageInsert(IF into_left THEN left_split ELSE right_split,
                        cell.key, cell.payload, Some(cell.left_child), g)
    IN  IF r.res # "Ok" THEN [left |-> left_split, right |-> right_split, res |-> r.res]
        ELSE IF into_left THEN Distribute(cells, i + 1, num_cells, r.page, right_split, g)
        ELSE Distribute(cells, i + 1, num_cells, left_split, r.page, g)

\* a split whose right half keeps the right_pointer of a new page
SplitPageNoPointer(page, g) ==
    LET num_cells == Len(page.cell_pointer_array)
        cells == SelectSeq(CellsIter(page, g), IsOk)
    IN  Distribute(cells, 0, num_cells, PageNew(page.header.page_type),
                   PageNew(page.header.page_type), g)

\* Page::split_page
SplitPage(page, g) ==
    LET num_cells == Len(page.cell_pointer_array)
        curr_right_pointer == page.header.right_pointer
        \* cells_iter().flatten() drops the cells that fail to decode
        cells == SelectSeq(CellsIter(page, g), IsOk)
        d == Distribute(cells, 0, num_cells, PageNew(page.header.page_type),
                        PageNew(page.header.page_type), g)
    IN  [d EXCEPT !.right = SetRightPointer(d.right, curr_right_pointer)]

\* Row as the table hands it to the pager: the serialised row carries the rowid,
\* here in every byte of a payload of the chosen length
RowBytes(rowid, len) == Rep(rowid % 256, len)

\* Row::try_from(payload)
RowFromBytes(payload) ==
    IF payload = <<>> \/ payload[1][1] = U THEN [ok |-> FALSE]
    ELSE [ok |-> TRUE, rowid |-> payload[1][1], len |-> RLen(payload)]

\* Page::rows_iter
RowsIter(page, g) ==
    LET cells == CellsIter(page, g) IN
    [i \in 1..Len(cells) |->
        IF cells[i].ok THEN RowFromBytes(cells[i].payload) ELSE [ok |-> FALSE]]

\* PageHeader::read_from_bytes and CellPtrArray::read_from_bytes: Page::new_from_read
\* on the 4096 bytes of a page image
PageNewFromRead(bytes, g) ==
    LET page_type == ReadBE(bytes, 0, 1, g)
        num_cells == ReadBE(bytes, 3, 2, g)
    IN  IF page_type \notin {Leaf, Interior} THEN [res |-> "InvalidPageType"]
        ELSE IF num_cells * CELL_PTR_BYTE_SIZE > PAGE_SIZE - PAGE_HEADER_SIZE
        THEN [res |-> "CellPtrArrayReadError"]
        ELSE [res |-> "Ok",
              page |-> [header |-> [page_type |-> page_type,
                                    first_free_block |-> ReadBE(bytes, 1, 2, g),
                                    num_cells |-> num_cells,
                                    cells_start |-> ReadBE(bytes, 5, 2, g),
                                    fragmented_free_bytes |-> ReadBE(bytes, 7, 1, g),
                                    right_pointer |-> ReadBE(bytes, 8, 4, g)],
                        data |-> bytes,
                        cell_pointer_array |->
                            [i \in 1..num_cells |->
                                ReadBE(bytes, PAGE_HEADER_SIZE + 2 * (i - 1), 2, g)]]]

(***************************************************************************)
(* Pager.  The pager is the record [num_pages, pages_cache, file]: the     *)
(* cache maps each slot 0..TABLE_MAX_PAGES-1 to None or Some(page), the    *)
(* file maps each page index to None (never written) or Some(image).  An   *)
(* operation returns the pager as it leaves it, also when it fails.        *)
(***************************************************************************)
root_page_num == 0

\* Database::open opens the file with create, write, truncate and without read:
\* every read of the file fails
FileReadable == FALSE

Slots == 0..(TABLE_MAX_PAGES - 1)

\* Pager::new
PagerNew(file) ==
    [num_pages |-> 1,
     pages_cache |-> [i \in Slots |-> IF i = root_page_num THEN Some(PageNew(Leaf)) ELSE None],
     file |-> file]

\* Pager::flush_page
FlushPage(pager, page_idx) ==
    IF page_idx \notin Slots \/ pager.pages_cache[page_idx] = None
    THEN [pager |-> pager, res |-> "Panic"]
    ELSE [pager |-> [pager EXCEPT !.file[page_idx] = Some(pager.pages_cache[page_idx][1].data)],
          res |-> "Ok"]

\* a page_write that fills the cache slot and leaves the file alone
PageWriteUnflushed(pager, p, page_idx) ==
    IF page_idx \notin Slots THEN [pager |-> pager, res |-> "Panic"]
    ELSE [pager |-> [pager EXCEPT !.pages_cache[page_idx] = Some(p)], res |-> "Ok"]

\* Pager::page_write
PageWrite(pager, p, page_idx) ==
    IF page_idx \notin Slots THEN [pager |-> pager, res |-> "Panic"]
    ELSE FlushPage([pager EXCEPT !.pages_cache[page_idx] = Some(p)], page_idx)

\* Pager::get_page_from_disk
GetPageFromDisk(pager, page_num, g) ==
    IF ~FileReadable \/ pager.file[page_num] = None THEN [res |-> "ReaderError"]
    ELSE PageNewFromRead(pager.file[page_num][1], g)

\* Pager::retrieve_page
RetrievePage(pager, page_num, g) ==
    IF ~(page_num < pager.num_pages) THEN [pager |-> pager, res |-> "PageNonExistent"]
    ELSE IF page_num \notin Slots THEN [pager |-> pager, res |-> "PageIdxOutOfRange"]
    ELSE IF pager.pages_cache[page_num] = None
    THEN LET d == GetPageFromDisk(pager, page_num, g) IN
         IF d.res # "Ok" THEN [pager |-> pager, res |-> d.res]
         ELSE [pager |-> [pager EXCEPT !.pages_cache[page_num] = Some(d.page)],
               res |-> "Ok", page |-> d.page]
    ELSE [pager |-> pager, res |-> "Ok", page |-> pager.pages_cache[page_num][1]]

\* Page::get_next_page_pointer: the cell is decoded at data[partition..], the
\* partition index taken as a byte offset
GetNextPagePointer(p, key, g) ==
    LET fp == FindPartition(p, key, g) IN
    IF fp.res # "Ok" THEN [res |-> fp.res]
    ELSE IF fp.key = None THEN [res |-> "Ok", page_num |-> p.header.right_pointer]
    ELSE LET next_page_cell == DecodeCell(p.data, fp.partition, g) IN
         IF ~next_page_cell.ok THEN [res |-> "CorruptData"]
         ELSE [res |-> "Ok", page_num |-> next_page_cell.left_child]

\* DBCursor::new
CursorNew == [page_num |-> 0, cell_ptr_pos |-> 0, parents_stack |-> <<>>]

\* what an operation on the pager returns: the pager and the cursor as it leaves
\* them, and its result
Done(pg, cur, res) == [pager |-> pg, cursor |-> cur, res |-> res]

\* the same for handle_root_split and handle_page_split, with the page numbers of
\* the two halves
Halves(pg, cur, res, l, r) ==
    [pager |-> pg, cursor |-> cur, res |-> res, left |-> l, right |-> r]

RECURSIVE GetLeafInsertionPosition(_, _, _, _)
RECURSIVE FollowPointer(_, _, _, _, _)

\* Pager::get_leaf_insertion_position, from the page pointer on: push the page and
\* descend.  A route that comes back to a page already on the path repeats for
\* ever (same page, same key, same bytes): the recursion overflows the stack.
FollowPointer(pg, cursor, key, g, n) ==
    IF n.res # "Ok" THEN Done(pg, cursor, n.res)
    ELSE IF n.page_num = cursor.page_num
            \/ \E i \in 1..Len(cursor.parents_stack) : cursor.parents_stack[i] = n.page_num
    THEN Done(pg, cursor, "StackOverflow")
    ELSE GetLeafInsertionPosition(pg,
            [cursor EXCEPT !.parents_stack = Append(cursor.parents_stack, cursor.page_num),
                           !.page_num = n.page_num], key, g)

\* Pager::get_leaf_insertion_position, with the page retrieve_page returned
DescendFrom(cursor, key, g, r) ==
    IF r.res # "Ok" THEN Done(r.pager, cursor, r.res)
    ELSE IF r.page.header.page_type = Leaf THEN Done(r.pager, cursor, "Ok")
    ELSE FollowPointer(r.pager, cursor, key, g, GetNextPagePointer(r.page, key, g))

\* Pager::get_leaf_insertion_position
GetLeafInsertionPosition(pager, cursor, key, g) ==
    DescendFrom(cursor, key, g, RetrievePage(pager, cursor.page_num, g))

\* a result that ends the process
Fatal(res) == res \in {"Panic", "StackOverflow"}

\* a root split that writes the new root without its right_pointer
WriteNewRootNoPointer(pager, cursor, ins, l, r) ==
    IF ins.res # "Ok" THEN Halves(pager, cursor, ins.res, l, r)
    ELSE Halves([PageWrite(pager, ins.page, root_page_num).pager
                    EXCEPT !.num_pages = @ + 1],
                cursor, "Ok", l, r)

\* Pager::handle_root_split, with the new root built
WriteNewRoot(pager, cursor, ins, l, r) ==
    IF ins.res # "Ok" THEN Halves(pager, cursor, ins.res, l, r)
    ELSE Halves([PageWrite(pager, SetRightPointer(ins.page, r), root_page_num).pager
                    EXCEPT !.num_pages = @ + 1],
                cursor, "Ok", l, r)

\* Pager::handle_root_split, with the last key of the left half
NewRoot(pager, cursor, lk, new_page_number, g) ==
    IF lk.res # "Ok" THEN Halves(pager, cursor, lk.res, new_page_number, pager.num_pages)
    ELSE WriteNewRoot(pager, cursor,
            PageInsert(PageNew(Interior), lk.key, <<>>, Some(new_page_number), g),
            new_page_number, pager.num_pages)

\* Pager::handle_root_split: the left half gets new_page_number, the right half the
\* next unused number; the cursor is the caller's, untouched
HandleRootSplit(pager, page_left_split, page_right_split, new_page_number, cursor, g) ==
    NewRoot(pager, cursor, GetLastKey(page_left_split, g), new_page_number, g)

RECURSIVE PagerInsert(_, _, _, _, _, _)

\* Pager::handle_page_split, from the parent put back: the routing cell of the left
\* half is inserted into the parent
InsertIntoParent(taken, cursor, parent_page_num, new_page_number, lk, upd, g) ==
    IF upd.res # "Ok" THEN Halves(taken, cursor, upd.res, cursor.page_num, new_page_number)
    ELSE LET ins == PagerInsert(
                        [taken EXCEPT !.pages_cache[parent_page_num] = Some(upd.page)],
                        [cursor EXCEPT !.page_num = parent_page_num],
                        lk, <<>>, Some(cursor.page_num), g)
         IN  Halves(ins.pager, ins.cursor, ins.res, cursor.page_num, new_page_number)

\* Pager::handle_page_split, with the partition of the right half's last key in the
\* parent: right_pointer or the cell found is pointed to the right half
Repoint(taken, split_page_parent, cursor, parent_page_num, new_page_number, rk, lk, fp, g) ==
    IF fp.res # "Ok" THEN Halves(taken, cursor, fp.res, cursor.page_num, new_page_number)
    ELSE InsertIntoParent(taken, cursor, parent_page_num, new_page_number, lk,
            IF fp.key = None
            THEN [page |-> SetRightPointer(split_page_parent, new_page_number), res |-> "Ok"]
            ELSE PageUpdateSameSize(split_page_parent, fp.partition, rk, <<>>,
                                    Some(new_page_number), g),
            g)

\* Pager::handle_page_split, with the parent taken out of its slot and the last keys
\* of the halves
WithLastKeys(taken, split_page_parent, cursor, parent_page_num, new_page_number, rk, lk, g) ==
    IF rk.res # "Ok" THEN Halves(taken, cursor, rk.res, cursor.page_num, new_page_number)
    ELSE IF lk.res # "Ok" THEN Halves(taken, cursor, lk.res, cursor.page_num, new_page_number)
    ELSE Repoint(taken, split_page_parent, cursor, parent_page_num, new_page_number,
                 rk.key, lk.key, FindPartition(split_page_parent, rk.key, g), g)

\* Pager::handle_page_split, with the parent popped from the stack
TakeParent(pager, page_left_split, page_right_split, new_page_number, cursor, parent_page_num, g) ==
    IF parent_page_num \notin Slots
    THEN Halves(pager, cursor, "PageIdxOutOfRange", cursor.page_num, new_page_number)
    ELSE IF pager.pages_cache[parent_page_num] = None
    THEN Halves(pager, cursor, "PageNonExistent", cursor.page_num, new_page_number)
    ELSE WithLastKeys([pager EXCEPT !.pages_cache[parent_page_num] = None],
                      pager.pages_cache[parent_page_num][1], cursor, parent_page_num,
                      new_page_number, GetLastKey(page_right_split, g),
                      GetLastKey(page_left_split, g), g)

\* Pager::handle_page_split: the left half keeps cursor.page_num, the right half
\* gets new_page_number
HandlePageSplit(pager, page_left_split, page_right_split, new_page_number, cursor, g) ==
    IF cursor.parents_stack = <<>>
    THEN Halves(pager, cursor, "ParentStackEmpty", cursor.page_num, new_page_number)
    ELSE TakeParent(pager, page_left_split, page_right_split, new_page_number,
                    [cursor EXCEPT !.parents_stack = SubSeq(@, 1, Len(@) - 1)],
                    cursor.parents_stack[Len(cursor.parents_stack)], g)

\* Pager::insert, after the retry: both halves are flushed
FlushHalves(again, l, r) ==
    IF again.res # "Ok" THEN again
    ELSE IF FlushPage(again.pager, l).res # "Ok" THEN Done(again.pager, again.cursor, "Panic")
    ELSE LET f2 == FlushPage(FlushPage(again.pager, l).pager, r) IN
         Done(f2.pager, again.cursor, f2.res)

\* Pager::insert, after the split was recorded in the tree: the halves go into their
\* slots and the insert is tried again on the half the key belongs to
Retry(h, mv, page_right_split, left_split_last_key, key, payload, left_child, g) ==
    IF h.res # "Ok" THEN Done(h.pager, h.cursor, h.res)
    ELSE IF mv.res # "Ok" THEN Done(h.pager, h.cursor, mv.res)
    ELSE IF h.left \notin Slots \/ h.right \notin Slots
    \* pages_cache[..] = Some(..) indexes past the array
    THEN Done(h.pager, h.cursor, "Panic")
    ELSE FlushHalves(
            PagerInsert([h.pager EXCEPT !.pages_cache[h.left] = Some(mv.page),
                                        !.pages_cache[h.right] = Some(page_right_split)],
                        [h.cursor EXCEPT !.page_num =
                            IF key < left_split_last_key THEN h.left ELSE h.right],
                        key, payload, left_child, g),
            h.left, h.right)

\* Pager::insert, with the halves and the last key of the left one: a new page number
\* is taken and the split is recorded in the root or in the parent
RecordSplit(taken, cursor, key, payload, left_child, g, sp, lk) ==
    IF sp.res # "Ok" THEN Done(taken, cursor, sp.res)
    ELSE IF lk.res # "Ok" THEN Done(taken, cursor, lk.res)
    ELSE Retry(IF cursor.page_num = root_page_num
               THEN HandleRootSplit([taken EXCEPT !.num_pages = @ + 1], sp.left, sp.right,
                                    taken.num_pages, cursor, g)
               ELSE HandlePageSplit([taken EXCEPT !.num_pages = @ + 1], sp.left, sp.right,
                                    taken.num_pages, cursor, g),
               IF sp.left.header.page_type = Interior
               THEN MoveLastLeftChildToRightPointer(sp.left, g)
               ELSE [page |-> sp.left, res |-> "Ok"],
               sp.right, lk.key, key, payload, left_child, g)

\* Pager::insert, with the halves of the full page
Split(taken, cursor, key, payload, left_child, g, sp) ==
    RecordSplit(taken, cursor, key, payload, left_child, g, sp,
                IF sp.res = "Ok" THEN GetLastKey(sp.left, g) ELSE [res |-> sp.res])

\* Pager::insert, with the page taken out of its slot and what Page::insert returned
Inserted(taken, cursor, key, payload, left_child, g, r) ==
    IF r.res = "Ok"
    THEN LET w == PageWrite(taken, r.page, cursor.page_num) IN Done(w.pager, cursor, w.res)
    ELSE IF r.res = "Panic" THEN Done(taken, cursor, "Panic")
    ELSE IF r.res # "PageFull"
    THEN Done([taken EXCEPT !.pages_cache[cursor.page_num] = Some(r.page)], cursor, r.res)
    ELSE IF taken.num_pages >= TABLE_MAX_PAGES THEN Done(taken, cursor, "TableFull")
    ELSE Split(taken, cursor, key, payload, left_child, g, SplitPage(r.page, g))

\* Pager::insert
PagerInsert(pager, cursor, key, payload, left_child, g) ==
    IF cursor.page_num \notin Slots THEN Done(pager, cursor, "PageIdxOutOfRange")
    ELSE IF pager.pages_cache[cursor.page_num] = None THEN Done(pager, cursor, "Ok")
    ELSE Inserted([pager EXCEPT !.pages_cache[cursor.page_num] = None], cursor, key,
                  payload, left_child, g,
                  PageInsert(pager.pages_cache[cursor.page_num][1], key, payload,
                             left_child, g))

\* Pager::flush_all
FlushAll(pager) ==
    [pager EXCEPT !.file = [i \in Slots |->
        IF pager.pages_cache[i] # None THEN Some(pager.pages_cache[i][1].data)
        ELSE pager.file[i]]]

\* the page indexes at which a write is made to fail: the first MaxFailSlot + 1
\* slots, and NoFailure for a file that takes every write
MaxFailSlot == 2
NoFailure == INVALID_PAGE_NUM
FailSlots == (0..MaxFailSlot) \cup {NoFailure}

\* Pager::flush_page on a file that fails at page index bad: the `?` after seek
\* and write_all returns the error as PagerError::Io
FlushPageIo(pager, page_idx, bad) ==
    IF page_idx = bad THEN [pager |-> pager, res |-> "Io"]
    ELSE FlushPage(pager, page_idx)

\* the lowest element of a non-empty set of page indexes
Lowest(S) == CHOOSE i \in S : \A j \in S : i <= j

\* Pager::flush_all on a file that fails at page index bad: the populated slots
\* are flushed in ascending order; Ok and PageIdxOutOfRange of flush_page go on
\* to the next slot, every other result reaches `_ => unreachable!()`, which
\* panics with the slots below it written
FlushAllIo(pager, bad) ==
    LET flush_indices == {i \in Slots : pager.pages_cache[i] # None}
        stops == {i \in flush_indices :
                    FlushPageIo(pager, i, bad).res \notin {"Ok", "PageIdxOutOfRange"}}
        upto == IF stops = {} THEN TABLE_MAX_PAGES ELSE Lowest(stops)
    IN  [pager |-> [pager EXCEPT !.file = [i \in Slots |->
                        IF i \in flush_indices /\ i < upto
                           /\ FlushPageIo(pager, i, bad).res = "Ok"
                        THEN FlushPageIo(pager, i, bad).pager.file[i]
                        ELSE pager.file[i]]],
         res |-> IF stops = {} THEN "Ok" ELSE "Panic"]

(***************************************************************************)
(* Table and database                                                      *)
(***************************************************************************)
\* Table::insert, with the cursor the descent returned
InsertAt(pos, rowid, data, g) ==
    IF pos.res # "Ok" THEN pos
    ELSE PagerInsert(pos.pager, pos.cursor, rowid, data, None, g)

\* Table::insert
TableInsertOp(pager, rowid, data, g) ==
    InsertAt(GetLeafInsertionPosition(pager, CursorNew, rowid, g), rowid, data, g)

RECURSIVE ScanFrom(_, _, _)
\* Table::deserialize_rows from slot i on: the rows of every populated leaf slot,
\* in slot order
ScanFrom(cache, i, g) ==
    IF i >= TABLE_MAX_PAGES THEN [ok |-> TRUE, rows |-> <<>>]
    ELSE IF cache[i] = None \/ cache[i][1].header.page_type # Leaf THEN ScanFrom(cache, i + 1, g)
    ELSE LET rows == RowsIter(cache[i][1], g)
             rest == ScanFrom(cache, i + 1, g)
         IN  IF (\E k \in 1..Len(rows) : ~rows[k].ok) \/ ~rest.ok THEN [ok |-> FALSE]
             ELSE [ok |-> TRUE, rows |-> rows \o rest.rows]

\* Table::deserialize_rows
DeserializeRows(pager, g) == ScanFrom(pager.pages_cache, 0, g)

\* a file no page of which was written
EmptyFile == [i \in Slots |-> None]

\* Database::close: every table flushes its pager
DatabaseClose(pg) == FlushAll(pg)

\* Database::open: the file is opened with truncate(true), its contents are dropped
DatabaseOpen(file) == [i \in Slots |-> None]

(***************************************************************************)
(* State                                                                   *)
(***************************************************************************)
VARIABLES
    pager,      \* Spec: the pager of the table (num_pages, pages_cache, file)
    res,        \* Spec: what the last operation returned
    okRows,     \* Spec: bag of the rows whose insert returned Ok in this session
    closedRows, \* Spec: after an open, the rows the session closed before it had inserted
    page,       \* PageSpec: the page under test
    pageRes,    \* PageSpec: what the last call on it returned
    pageKeys,   \* PageSpec: keys inserted with Ok and not deleted since
    codec,      \* CodecSpec: a payload on its way through the LeafCell codec
    db          \* DbSpec: a database, its file and the pagers of its tables

vars == <<pager, res, okRows, closedRows, page, pageRes, pageKeys, codec, db>>

engineVars == <<pager, res, okRows, closedRows>>
pageVars == <<page, pageRes, pageKeys>>
codecVars == <<codec>>
dbVars == <<db>>

EngineStart ==
    /\ pager = PagerNew(EmptyFile)
    /\ res = "New"
    /\ okRows = EmptyBag
    /\ closedRows = EmptyBag

PageStart ==
    /\ page = PageNew(Leaf)
    /\ pageRes = "New"
    /\ pageKeys = {}

\* the codec before any payload is given to it
CodecIdle == [stage |-> "idle", data |-> <<>>, cell |-> NoCell, bytes |-> <<>>,
              decoded |-> [ok |-> FALSE, cell |-> NoCell]]

CodecStart == codec = CodecIdle

\* the names the tables of the database are added under
TableNames == {"A", "B"}

\* Database::open: the file, truncated, and no table.  wrote[t] collects the file
\* pages the pager of table t wrote, res is what the last call returned, calls
\* counts the inserts
DbNew ==
    [file |-> EmptyFile, tables |-> [t \in TableNames |-> None],
     wrote |-> [t \in TableNames |-> {}], res |-> "New", calls |-> 0]

DbStart == db = DbNew

(***************************************************************************)
(* Spec: one database with one table, driven through Table::insert, and    *)
(* closed and opened again.  A call that panics ends the process.          *)
(***************************************************************************)
Init == EngineStart /\ PageStart /\ CodecStart /\ DbStart

Alive == ~Fatal(res)

TableInsert(rowid, len, g) ==
    /\ Alive
    /\ pager.num_pages <= MaxPages
    /\ \E r \in {TableInsertOp(pager, rowid, RowBytes(rowid, len), g)} :
        /\ pager' = r.pager
        /\ res' = r.res
        /\ okRows' = IF r.res = "Ok" THEN okRows (+) SetToBag({[rowid |-> rowid, len |-> len]})
                     ELSE okRows
    /\ closedRows' = EmptyBag
    /\ UNCHANGED <<pageVars, codecVars, dbVars>>

\* Database::close, then Database::open on the same path and add_table
Reopen ==
    /\ Alive
    /\ res # "Opened"
    /\ pager' = PagerNew(DatabaseOpen(DatabaseClose(pager).file))
    /\ res' = "Opened"
    /\ closedRows' = okRows
    /\ okRows' = EmptyBag
    /\ UNCHANGED <<pageVars, codecVars, dbVars>>

Next ==
    \/ \E rowid \in Keys, len \in PayloadLens, g \in Garbage : TableInsert(rowid, len, g)
    \/ Reopen

Spec == Init /\ [][Next]_vars

(***************************************************************************)
(* PageSpec: one page, driven through Page::insert, Page::delete and       *)
(* Page::update_same_size.  A call that panics ends the process.           *)
(***************************************************************************)
PageInit == EngineStart /\ PageStart /\ CodecStart /\ DbStart

PageCanCall == pageRes # "Panic"

\* the n-th smallest element of a set of numbers
NthSmallest(S, n) == CHOOSE x \in S : Cardinality({y \in S : y < x}) = n - 1

PInsert(key, len, left_child, g) ==
    /\ PageCanCall
    /\ LET r == PageInsert(page, key, RowBytes(key, len), left_child, g) IN
        /\ page' = r.page
        /\ pageRes' = r.res
        /\ pageKeys' = IF r.res = "Ok" THEN pageKeys \cup {key} ELSE pageKeys
    /\ UNCHANGED <<engineVars, codecVars, dbVars>>

PDelete(cell_ptr_pos) ==
    /\ PageCanCall
    /\ LET r == PageDelete(page, cell_ptr_pos) IN
        /\ page' = r.page
        /\ pageRes' = r.res
        /\ pageKeys' = IF r.res = "Ok"
                       THEN pageKeys \ {NthSmallest(pageKeys, cell_ptr_pos + 1)}
                       ELSE pageKeys
    /\ UNCHANGED <<engineVars, codecVars, dbVars>>

PUpdateSameSize(key_index, key, len, left_child, g) ==
    /\ PageCanCall
    /\ LET r == PageUpdateSameSize(page, key_index, key, RowBytes(key, len), left_child, g) IN
        /\ page' = r.page
        /\ pageRes' = r.res
    /\ UNCHANGED <<pageKeys, engineVars, codecVars, dbVars>>

PageKeys == 1..MaxPageKey

\* the page operations read no uninitialised byte; two garbage values show it
PageGarbage == {0, MaxGarbage}

PageNext ==
    \/ \E key \in PageKeys, len \in PayloadLens, g \in PageGarbage :
            PInsert(key, len, None, g)
    \/ \E pos \in 0..MaxPageKey : PDelete(pos)
    \/ \E idx \in 0..(MaxPageKey - 1), key \in PageKeys, len \in PayloadLens,
          g \in PageGarbage :
            PUpdateSameSize(idx, key, len, Some(1), g)

PageSpec == PageInit /\ [][PageNext]_vars

(***************************************************************************)
(* PagerSpec: one pager, driven through Pager::insert with keys in         *)
(* ascending order.  The cursor handed to Pager::insert is the one         *)
(* DBCursor::new returns, which points at the root page, or while the tree *)
(* has at most MaxLeafPages pages the one the descent from the root        *)
(* returns.                                                                *)
(***************************************************************************)
\* payload length of the records of PagerSpec: four cells of it fit a page
RootLen == 1006
\* inserts are offered to the pager of PagerSpec until MaxInserts of them were
\* answered Ok: enough for the pager to run out of page numbers
MaxInserts == 210
\* the descent cursor is used while the pager counts at most MaxLeafPages pages:
\* enough for a leaf whose parent is not the root to split
MaxLeafPages == 5

PagerInit == EngineStart /\ PageStart /\ CodecStart /\ DbStart

\* the next key of the ascending order
NextKey == BagCardinality(okRows) + 1

\* what a call of Pager::insert leaves: the pager, the result, the rows inserted
Called(r) ==
    /\ pager' = r.pager
    /\ res' = r.res
    /\ okRows' = IF r.res = "Ok" THEN okRows (+) SetToBag({[rowid |-> NextKey, len |-> RootLen]})
                 ELSE okRows
    /\ closedRows' = EmptyBag
    /\ UNCHANGED <<pageVars, codecVars, dbVars>>

\* Pager::insert(&mut DBCursor::new(table), key, payload, None)
InsertAtRoot(g) ==
    /\ Alive
    /\ BagCardinality(okRows) < MaxInserts
    /\ \E r \in {PagerInsert(pager, CursorNew, NextKey, RowBytes(NextKey, RootLen), None, g)} :
        Called(r)

\* Pager::insert with the cursor of get_leaf_insertion_position
InsertAtLeaf(g) ==
    /\ Alive
    /\ BagCardinality(okRows) < MaxInserts
    /\ pager.num_pages <= MaxLeafPages
    /\ \E r \in {TableInsertOp(pager, NextKey, RowBytes(NextKey, RootLen), g)} :
        Called(r)

PagerNext ==
    \/ \E g \in Garbage : InsertAtRoot(g)
    \/ \E g \in Garbage : InsertAtLeaf(g)

PagerSpec == PagerInit /\ [][PagerNext]_vars

(***************************************************************************)
(* CodecSpec: one payload taken through LeafCell::new, the conversion of   *)
(* the cell to bytes and the conversion of those bytes back to a cell.     *)
(***************************************************************************)
\* byte values and run lengths of the payloads offered to the codec; the
\* longest payload is the longest a page can hold next to one other cell
MaxCodecByte == 2
CodecBytes == 0..MaxCodecByte
CodecLens == {0, 1, 2, 2034}
CodecData == {RCat(Rep(a, m), Rep(b, n)) : a \in CodecBytes, b \in CodecBytes, m \in CodecLens, n \in CodecLens}

CodecInit ==
    /\ EngineStart
    /\ PageStart
    /\ codec \in {[CodecIdle EXCEPT !.stage = "data", !.data = d] : d \in CodecData}
    /\ DbStart

\* LeafCell::new
CodecNew ==
    /\ codec.stage = "data"
    /\ codec' = [codec EXCEPT !.stage = "cell", !.cell = LeafCellNew(codec.data)]
    /\ UNCHANGED <<engineVars, pageVars, dbVars>>

\* Rc<[u8]>::from(leaf_cell)
CodecInto ==
    /\ codec.stage = "cell"
    /\ codec' = [codec EXCEPT !.stage = "bytes", !.bytes = LeafCellBytes(codec.cell)]
    /\ UNCHANGED <<engineVars, pageVars, dbVars>>

\* LeafCell::try_from(bytes)
CodecTryFrom ==
    /\ codec.stage = "bytes"
    /\ codec' = [codec EXCEPT !.stage = "decoded", !.decoded = LeafCellTryFrom(codec.bytes)]
    /\ UNCHANGED <<engineVars, pageVars, dbVars>>

CodecNext == CodecNew \/ CodecInto \/ CodecTryFrom

CodecSpec == CodecInit /\ [][CodecNext]_vars

(***************************************************************************)
(* DbSpec: one database with the tables its caller adds, each driven       *)
(* through Table::insert.  The tables hold clones of the one file handle   *)
(* of the database.  A call that panics ends the process.                  *)
(***************************************************************************)
\* inserts are offered until MaxDbCalls of them were made
MaxDbCalls == 3

DbInit == EngineStart /\ PageStart /\ CodecStart /\ DbStart

\* Table::new: root_page_num = 0 and a pager of its own, Pager::new(file, 0)
TableNew == [num_pages |-> PagerNew(EmptyFile).num_pages,
             pages_cache |-> PagerNew(EmptyFile).pages_cache]

\* the pager of table t, its file_ref resolved to the file of the database
PagerOf(d, t) ==
    [num_pages |-> d.tables[t][1].num_pages, pages_cache |-> d.tables[t][1].pages_cache,
     file |-> d.file]

\* what of a pager is the table's own: the page count and the cache
CacheOf(pg) == [num_pages |-> pg.num_pages, pages_cache |-> pg.pages_cache]

\* the file pages a call on a pager wrote: flush_page seeks to page_idx * PAGE_SIZE
\* and writes the image of the cache slot; the pages whose bytes in the file
\* changed, and those whose slot changed and whose image is in the file
Written(before, after) ==
    {i \in Slots : \/ after.file[i] # before.file[i]
                   \/ /\ after.pages_cache[i] # None
                      /\ after.pages_cache[i] # before.pages_cache[i]
                      /\ after.file[i] = Some(after.pages_cache[i][1].data)}

\* Database::add_table
AddTable(t) ==
    /\ ~Fatal(db.res)
    /\ db' = IF db.tables[t] # None THEN [db EXCEPT !.res = "DuplicateTable"]
             ELSE [db EXCEPT !.tables[t] = Some(TableNew), !.res = "Ok"]
    /\ UNCHANGED <<engineVars, pageVars, codecVars>>

\* Database::get_table(t), then Table::insert
DbInsert(t, rowid, len, g) ==
    /\ ~Fatal(db.res)
    /\ db.tables[t] # None
    /\ db.calls < MaxDbCalls
    /\ \E r \in {TableInsertOp(PagerOf(db, t), rowid, RowBytes(rowid, len), g)} :
        db' = [file |-> r.pager.file,
               tables |-> [db.tables EXCEPT ![t] = Some(CacheOf(r.pager))],
               wrote |-> [db.wrote EXCEPT ![t] = @ \cup Written(PagerOf(db, t), r.pager)],
               res |-> r.res,
               calls |-> db.calls + 1]
    /\ UNCHANGED <<engineVars, pageVars, codecVars>>

DbNext ==
    \/ \E t \in TableNames : AddTable(t)
    \/ \E t \in TableNames, rowid \in Keys, len \in PayloadLens, g \in Garbage :
            DbInsert(t, rowid, len, g)

DbSpec == DbInit /\ [][DbNext]_vars

(***************************************************************************)
(* The tree as the cache holds it.  Cells written by insert hold no        *)
(* uninitialised byte, so the reads below do not depend on the garbage.    *)
(***************************************************************************)
CachedPage(pn) == pager.pages_cache[pn][1]

IsCached(pn) == pn \in Slots /\ pager.pages_cache[pn] # None

\* the cells of page pn that decode
CellsOf(pn) == SelectSeq(CellsIter(CachedPage(pn), 0), IsOk)

SeqRange(s) == {s[i] : i \in 1..Len(s)}

\* the page numbers an interior page points to
ChildrenOf(pn) ==
    {c.left_child : c \in SeqRange(CellsOf(pn))} \cup {CachedPage(pn).header.right_pointer}

RECURSIVE TreePages(_, _)
\* the cached pages within fuel steps below page pn, pn included
TreePages(pn, fuel) ==
    IF fuel = 0 \/ ~IsCached(pn) THEN {}
    ELSE IF CachedPage(pn).header.page_type = Leaf THEN {pn}
    ELSE {pn} \cup UNION {TreePages(c, fuel - 1) : c \in ChildrenOf(pn)}

TreeFuel == MaxPages + 2

Tree == TreePages(root_page_num, TreeFuel)

LeafPages == {pn \in Tree : CachedPage(pn).header.page_type = Leaf}

InteriorPages == {pn \in Tree : CachedPage(pn).header.page_type = Interior}

\* the record keys in the leaves at or below page pn
SubtreeKeys(pn) ==
    UNION {{c.key : c \in SeqRange(CellsOf(l))} :
            l \in {q \in TreePages(pn, TreeFuel) : CachedPage(q).header.page_type = Leaf}}

TreeOrdered ==
    \A pn \in InteriorPages :
        /\ \A c \in SeqRange(CellsOf(pn)) : \A k \in SubtreeKeys(c.left_child) : k <= c.key
        /\ \A k \in SubtreeKeys(CachedPage(pn).header.right_pointer) :
                \A c \in SeqRange(CellsOf(pn)) : k > c.key

\* C1: after any sequence of inserts, in every interior page of the tree the keys
\* below a cell's left_child are <= the cell's key and the keys below
\* right_pointer are greater than every cell key.
C1_TreeOrdering == Alive => TreeOrdered

RECURSIVE SeqToBag(_)
SeqToBag(s) ==
    IF s = <<>> THEN EmptyBag ELSE SetToBag({Head(s)}) (+) SeqToBag(Tail(s))

\* the full scan of the table
Scan == DeserializeRows(pager, 0)

RowOf(r) == [rowid |-> r.rowid, len |-> r.len]

ScanBag == SeqToBag([i \in 1..Len(Scan.rows) |-> RowOf(Scan.rows[i])])

\* C2: within a session a full scan returns exactly the rows whose insert returned
\* Ok, each once.
C2_ScanReturnsInserted == Alive => (Scan.ok /\ ScanBag = okRows)

\* the number of leaf cells of the tree that hold key k
LeafKeyCount(k) ==
    Cardinality(UNION {{<<l, i>> : i \in {j \in 1..Len(CellsOf(l)) : CellsOf(l)[j].key = k}} :
                        l \in LeafPages})

\* C3: no key occurs in more than one leaf cell of the tree.
C3_KeysUnique == Alive => \A k \in Keys : LeafKeyCount(k) <= 1

\* C7: a full scan returns the rows in ascending key order.
C7_ScanAscending ==
    Alive => (Scan.ok /\ \A i, j \in 1..Len(Scan.rows) :
                            i < j => Scan.rows[i].rowid < Scan.rows[j].rowid)

\* C4: inserting a key that is in the tree returns DuplicateKey and leaves the page
\* slots, num_pages and the file as they were.
C4_DuplicateLeavesEngine ==
    Alive => \A k \in SubtreeKeys(root_page_num), len \in PayloadLens, g \in Garbage :
                LET r == TableInsertOp(pager, k, RowBytes(k, len), g)
                IN  r.res = "DuplicateKey" /\ r.pager = pager

\* C5: after close and open of the same file, the scan yields the bag of rows the
\* closed session had inserted with Ok.
C5_Durability == (res = "Opened") => (Scan.ok /\ ScanBag = closedRows)

\* the file holds the image of the page cached in slot pn
OnDisk(pg, pn) == pg.file[pn] = Some(pg.pages_cache[pn][1].data)

\* C6: when an insert returns Ok, every cached page, so every page the insert
\* modified or created, is in the file at its slot as the cache holds it.
C6_WriteThrough == (res = "Ok") => \A pn \in Slots : IsCached(pn) => OnDisk(pager, pn)

\* an insert that split a leaf below the root returned Ok: the leaf, its new right
\* half and the re-pointed root are cached
C6_Witness ==
    /\ res = "Ok"
    /\ pager.num_pages = 4
    /\ \A pn \in 0..3 : IsCached(pn)
    /\ Len(CachedPage(root_page_num).cell_pointer_array) = 2

(***************************************************************************)
(* Claims about one page, checked under PageSpec                           *)
(***************************************************************************)
\* the keys of the page in cell-pointer order
KeysRead == GetKeys(page, 0)

\* C8: the keys read back through the cell-pointer array are strictly ascending and
\* are exactly the keys inserted with Ok and not deleted since.
C8_PageKeys ==
    PageCanCall =>
        /\ KeysRead.ok
        /\ \A i, j \in 1..Len(KeysRead.keys) : i < j => KeysRead.keys[i] < KeysRead.keys[j]
        /\ SeqRange(KeysRead.keys) = pageKeys

\* three inserts, a delete and an update returned Ok: two cells are live below the
\* space of three, and one cell carries the left_child the update wrote
C8_Witness ==
    /\ pageRes = "Ok"
    /\ Len(page.cell_pointer_array) = 2
    /\ page.header.cells_start = PAGE_SIZE - 3 * (CELL_PREFIX_SIZE + 1006)
    /\ \E i \in 1..2 : DecodeCell(page.data, page.cell_pointer_array[i], 0).left_child = 1

\* the bytes [offset, offset + 14 + payload_size) of the i-th live cell
CellFrom(i) == page.cell_pointer_array[i]
CellTo(i) == CellFrom(i) + CELL_PREFIX_SIZE
                + DecodeCell(page.data, page.cell_pointer_array[i], 0).payload_size

\* C9: after a page mutation that returned Ok, 12 + 2*num_cells <= cells_start <= 4096
\* and no live cell overlaps the cell-pointer array or another live cell.
C9_NoOverlap ==
    (pageRes = "Ok") =>
        LET n == Len(page.cell_pointer_array) IN
        /\ page.header.cells_start >= PAGE_HEADER_SIZE + CELL_PTR_BYTE_SIZE * page.header.num_cells
        /\ page.header.cells_start <= PAGE_SIZE
        /\ \A i \in 1..n : CellFrom(i) >= PAGE_HEADER_SIZE + CELL_PTR_BYTE_SIZE * n
        /\ \A i, j \in 1..n : i # j => (CellTo(i) <= CellFrom(j) \/ CellTo(j) <= CellFrom(i))

\* C10: Page::insert of a key the page holds returns DuplicateKey and leaves the
\* page (header, cell-pointer array, bytes) as it was, with or without room.
C10_DuplicateKeepsPage ==
    PageCanCall =>
        \A key \in pageKeys, len \in PayloadLens, g \in PageGarbage :
            PageInsert(page, key, RowBytes(key, len), None, g)
                = [page |-> page, res |-> "DuplicateKey"]

\* a page that holds a key and has no room for another cell
C10_Witness ==
    /\ PageCanCall
    /\ pageKeys # {}
    /\ \E key \in PageKeys \ pageKeys, len \in PayloadLens :
            PageInsert(page, key, RowBytes(key, len), None, 0).res = "PageFull"
    /\ \E key \in pageKeys, len \in PayloadLens :
            PageInsert(page, key, RowBytes(key, len), None, 0).res = "DuplicateKey"

\* C11: a Page::insert that returns PageFull leaves num_cells, cells_start,
\* right_pointer, the cell-pointer array and the bytes of the page as they were.
C11_PageFullKeepsPage ==
    PageCanCall =>
        \A key \in PageKeys, len \in PayloadLens, g \in PageGarbage :
            \A r \in {PageInsert(page, key, RowBytes(key, len), None, g)} :
                r.res = "PageFull" => r.page = page

\* the cells of page p in cell-pointer order: key, payload and left_child
CellsIn(p) ==
    [i \in 1..Len(p.cell_pointer_array) |->
        [key |-> DecodeCell(p.data, p.cell_pointer_array[i], 0).key,
         payload |-> DecodeCell(p.data, p.cell_pointer_array[i], 0).payload,
         left_child |-> DecodeCell(p.data, p.cell_pointer_array[i], 0).left_child]]

Ascending(cells) == \A i, j \in 1..Len(cells) : i < j => cells[i].key < cells[j].key

\* the halves are what the claim asks of a split of page p
GoodSplit(p, sp) ==
    /\ sp.res = "Ok"
    /\ CellsIn(sp.left) # <<>>
    /\ CellsIn(sp.right) # <<>>
    /\ CellsIn(sp.left)[Len(CellsIn(sp.left))].key < CellsIn(sp.right)[1].key
    /\ Ascending(CellsIn(sp.left))
    /\ Ascending(CellsIn(sp.right))
    /\ CellsIn(sp.left) \o CellsIn(sp.right) = CellsIn(p)

\* C12: the split of a page that rejected an insert with PageFull gives two
\* non-empty ascending halves, the left one below the right one, that together
\* hold the cells of the page with payload and left_child kept.
C12_SplitHalves ==
    (pageRes = "PageFull") => \A g \in PageGarbage : GoodSplit(page, SplitPage(page, g))

\* C13: decoding the bytes of an encoded cell gives back the key, the payload
\* and the left_child that were encoded, and the payload_size field of the
\* encoded bytes is the length of the payload.
C13_CodecRoundTrip ==
    (codec.stage = "decoded") =>
        /\ codec.decoded.ok
        /\ codec.decoded.cell.id = codec.cell.id
        /\ codec.decoded.cell.data = codec.data
        /\ codec.decoded.cell.left_child = codec.cell.left_child
        /\ FromBE(Field(codec.bytes, 0, PAYLOAD_SIZE_SIZE)) = RLen(codec.data)

RECURSIVE CellBytesTotal(_)
\* the bytes the cells of a sequence take in a page
CellBytesTotal(cells) ==
    IF cells = <<>> THEN 0
    ELSE CELL_PREFIX_SIZE + RLen(cells[1].payload) + CellBytesTotal(Tail(cells))

\* page p holds the cells of its successful inserts and nothing else: no cell
\* was deleted from it and no insert into it was rejected
Packed(p) == p.header.cells_start = PAGE_SIZE - CellBytesTotal(CellsIn(p))

\* the page that Page::new_from_read builds from image r is page p, as far as
\* page type, num_cells, cells_start, right_pointer and cell offsets go
SamePage(p, r) ==
    /\ r.res = "Ok"
    /\ r.page.header.page_type = p.header.page_type
    /\ r.page.header.num_cells = p.header.num_cells
    /\ r.page.header.cells_start = p.header.cells_start
    /\ r.page.header.right_pointer = p.header.right_pointer
    /\ r.page.cell_pointer_array = p.cell_pointer_array

\* C14: loading the 4096-byte image of a page built by Page::new and successful
\* inserts gives a page with the same page type, num_cells, cells_start,
\* right_pointer and the same cell offsets in the same order.  Stated for the
\* pages that hold at least one cell, whose num_cells field has been written.
C14_ImageRoundTrip ==
    (PageCanCall /\ Packed(page) /\ page.cell_pointer_array # <<>>) =>
        \A g \in PageGarbage : SamePage(page, PageNewFromRead(page.data, g))

C17_InsertEnds == res \in {"New", "Opened", "Ok", "DuplicateKey", "TableFull"}

\* C18: two tables of one database keep to page numbers of their own: no page of
\* the shared file is written by the pagers of both, so a write-through of one
\* table never lands on a file page of the other.
C18_TablesDisjoint ==
    \A t \in TableNames, u \in TableNames :
        (t # u) => (db.wrote[t] \cap db.wrote[u] = {})

\* the size of the cell of a payload of len bytes
CellSizeOf(len) == PAYLOAD_SIZE_SIZE + ID_SIZE + LEFT_CHILD_SIZE + len

\* the payload length whose cell would end exactly at the end of the pointer array
\* of p grown by one entry
EdgeLen(p) ==
    p.header.cells_start - CellSizeOf(0)
        - (PAGE_HEADER_SIZE + CELL_PTR_BYTE_SIZE * (p.header.num_cells + 1))

\* the payload lengths inserted into p: those of the rows, and those at the edge
EdgeLens(p) == PayloadLens \cup {n \in {EdgeLen(p) - 1, EdgeLen(p), EdgeLen(p) + 1} : n >= 0}

\* when the page is said to be full for a payload of len bytes
FullWhen(p, len) ==
    p.header.cells_start - CellSizeOf(len)
        < PAGE_HEADER_SIZE + CELL_PTR_BYTE_SIZE * (p.header.num_cells + 1)

\* C19: Page::insert of a key the page does not hold, with a cell of s = 14 + len
\* bytes, returns PageFull exactly when cells_start - s < 12 + 2*(num_cells + 1)
\* and Ok otherwise; the cell that ends exactly at the end of the grown pointer
\* array is accepted.
C19_FullExactly ==
    PageCanCall =>
        \A key \in PageKeys, len \in EdgeLens(page), g \in PageGarbage :
            LET r == PageInsert(page, key, RowBytes(key, len), None, g) IN
            \/ r.res = "DuplicateKey"
            \/ r.res = IF FullWhen(page, len) THEN "PageFull" ELSE "Ok"

\* what a successful Page::insert(key, payload) at pointer index idx makes of page p
InsertedAs(p, q, key, payload, idx) ==
    LET s   == CellSizeOf(RLen(payload))
        cs  == p.header.cells_start
        cpa == p.cell_pointer_array
    IN  /\ q.header.cells_start = cs - s
        /\ q.header.num_cells = p.header.num_cells + 1
        /\ Slice(q.data, cs - s, s) = EncodeCell(key, payload, None)
        /\ q.cell_pointer_array =
               SubSeq(cpa, 1, idx) \o <<cs - s>> \o SubSeq(cpa, idx + 1, Len(cpa))
        /\ Slice(q.data, cs, PAGE_SIZE - cs) = Slice(p.data, cs, PAGE_SIZE - cs)
        /\ (p = PageNew(p.header.page_type)) =>
               /\ q.header.num_cells = 1
               /\ q.header.cells_start = PAGE_SIZE - CELL_PREFIX_SIZE - RLen(payload)

\* C20: a Page::insert that returns Ok writes the cell into the s = 14 + len bytes
\* below cells_start, lowers cells_start by s, raises num_cells by one, puts the
\* new offset at the index find_partition returned and leaves the cells stored
\* before, bytes and offsets, as they were; after the first insert into an empty
\* leaf num_cells = 1 and cells_start = 4096 - 14 - len.
C20_InsertWrites ==
    PageCanCall =>
        \A key \in PageKeys, len \in PayloadLens, g \in PageGarbage :
            LET r == PageInsert(page, key, RowBytes(key, len), None, g) IN
            (r.res = "Ok") =>
                InsertedAs(page, r.page, key, RowBytes(key, len),
                           FindPartition(page, key, g).partition)

\* a page after two successful inserts, the smaller key inserted last: its offset,
\* the lower one, went to the front of the pointer array
C20_Witness ==
    /\ pageRes = "Ok"
    /\ Len(page.cell_pointer_array) = 2
    /\ page.header.num_cells = 2
    /\ page.cell_pointer_array[1] < page.cell_pointer_array[2]
    /\ page.header.cells_start = page.cell_pointer_array[1]
    /\ \E key \in PageKeys, len \in PayloadLens :
            Slice(page.data, page.header.cells_start, CellSizeOf(len))
                = EncodeCell(key, RowBytes(key, len), None)

\* the positions of keys whose key is at least key
AtLeast(keys, key) == {i \in 1..Len(keys) : keys[i] >= key}

\* the lowest index (from 0) whose key is at least key, with that key; the number
\* of cells and no key when every key is less
LowestAtLeast(keys, key, num_cells) ==
    IF AtLeast(keys, key) = {} THEN [res |-> "Ok", partition |-> num_cells, key |-> None]
    ELSE LET i == CHOOSE i \in AtLeast(keys, key) : \A j \in AtLeast(keys, key) : i <= j
         IN  [res |-> "Ok", partition |-> i - 1, key |-> Some(keys[i])]

\* the keys any search asks for: those of the page, one below and one above
SearchKeys == 0..(MaxPageKey + 1)

\* C21: on a page whose keys are strictly ascending find_partition(key) returns
\* (i, keys[i]) for the lowest index i whose key is >= key, and (num_cells, none)
\* when every key of the page is less than key, also on the empty page.
C21_FindPartition ==
    (PageCanCall /\ KeysRead.ok
        /\ \A i, j \in 1..Len(KeysRead.keys) : i < j => KeysRead.keys[i] < KeysRead.keys[j]) =>
        \A key \in SearchKeys, g \in PageGarbage :
            FindPartition(page, key, g) = LowestAtLeast(KeysRead.keys, key, page.header.num_cells)

\* three cells, the one with the middle key inserted last: find_partition gave its
\* insert the index 1 and the key above it
C21_Witness ==
    /\ pageRes = "Ok"
    /\ Len(page.cell_pointer_array) = 3
    /\ page.cell_pointer_array[2] < page.cell_pointer_array[1]
    /\ page.cell_pointer_array[2] < page.cell_pointer_array[3]
    /\ page.header.cells_start = page.cell_pointer_array[2]
    /\ \E key \in SearchKeys :
            FindPartition(page, key, 0) = [res |-> "Ok", partition |-> 3, key |-> None]

\* the route the routing cell at the index of find_partition gives: right_pointer
\* when no key of the page is >= key, else the left_child of the cell the
\* cell-pointer entry at that index refers to
RouteByCell(p, key, g) ==
    LET fp == FindPartition(p, key, g) IN
    IF fp.res # "Ok" THEN [res |-> fp.res]
    ELSE IF fp.key = None THEN [res |-> "Ok", page_num |-> p.header.right_pointer]
    ELSE LET c == DecodeCell(p.data, p.cell_pointer_array[fp.partition + 1], g) IN
         IF ~c.ok THEN [res |-> "CorruptData"]
         ELSE [res |-> "Ok", page_num |-> c.left_child]

\* C22: on every interior page of the tree, get_next_page_pointer(key) returns
\* right_pointer when key is greater than every routing key, and otherwise the
\* left_child of the routing cell at the index find_partition found.
C22_RouteByCell ==
    Alive =>
        \A pn \in Slots :
            (IsCached(pn) /\ CachedPage(pn).header.page_type = Interior) =>
                \A key \in Keys, g \in Garbage :
                    GetNextPagePointer(CachedPage(pn), key, g)
                        = RouteByCell(CachedPage(pn), key, g)

\* the lowest offset among the cell pointers of p, PAGE_SIZE when it has none
LowestOffset(p) ==
    IF p.cell_pointer_array = <<>> THEN PAGE_SIZE
    ELSE CHOOSE o \in SeqRange(p.cell_pointer_array) :
            \A q \in SeqRange(p.cell_pointer_array) : o <= q

\* what Page::delete(index) is to make of page p
DeletedAs(p, q, index) ==
    /\ q.cell_pointer_array = VecRemove(p.cell_pointer_array, index)
    /\ q.header.num_cells = p.header.num_cells - 1
    /\ q.header.cells_start = LowestOffset(q)

\* C23: delete(index) removes the cell pointer at that index, lowers num_cells by
\* one and keeps the other pointers in order; afterwards cells_start is the lowest
\* offset among the remaining cell pointers, or 4096 when the page became empty.
C23_DeleteAdjusts ==
    (PageCanCall /\ page.header.cells_start = LowestOffset(page)) =>
        \A index \in 0..(Len(page.cell_pointer_array) - 1) :
            LET r == PageDelete(page, index) IN
            r.res = "Ok" /\ DeletedAs(page, r.page, index)

\* the cell of page p at pointer index i (from 0)
CellAt(p, i) == DecodeCell(p.data, p.cell_pointer_array[i + 1], 0)

\* the left_child an update writes
NewChild == 1

\* what update_same_size(index, key, payload, left_child) is to make of page p: the
\* cell at the index holds the payload and the left_child, all else is as it was
UpdatedAs(p, q, index, key, payload, left_child) ==
    LET off == p.cell_pointer_array[index + 1]
        s   == CellSizeOf(RLen(payload))
    IN  /\ q.header = p.header
        /\ q.cell_pointer_array = p.cell_pointer_array
        /\ Slice(q.data, off, s) = EncodeCell(key, payload, left_child)
        /\ Slice(q.data, 0, off) = Slice(p.data, 0, off)
        /\ Slice(q.data, off + s, PAGE_SIZE - off - s) = Slice(p.data, off + s, PAGE_SIZE - off - s)

\* C24: update_same_size called with the key of the cell at the index and a payload
\* of the stored length returns Ok for every index of the page, wherever the cell
\* lies, and changes only the payload and left_child of that cell.
C24_UpdateInPlace ==
    (PageCanCall /\ KeysRead.ok) =>
        \A index \in 0..(Len(page.cell_pointer_array) - 1), g \in PageGarbage :
            LET key     == CellAt(page, index).key
                payload == RowBytes(key + 1, CellAt(page, index).payload_size)
                r       == PageUpdateSameSize(page, index, key, payload, Some(NewChild), g)
            IN  r.res = "Ok" /\ UpdatedAs(page, r.page, index, key, payload, Some(NewChild))

\* C25: update_same_size fails with UpdateNotSameKey when the cell at the index
\* holds another key, and with UpdateNotSameSize when it holds the key and the
\* payload length differs from the stored payload size; both leave the page as
\* it was.
C25_UpdateMismatch ==
    (PageCanCall /\ KeysRead.ok) =>
        \A index \in 0..(Len(page.cell_pointer_array) - 1), key \in PageKeys,
           len \in PayloadLens, g \in PageGarbage :
            LET r == PageUpdateSameSize(page, index, key, RowBytes(key, len), Some(NewChild), g)
            IN  /\ (key # CellAt(page, index).key) =>
                        r = [page |-> page, res |-> "UpdateNotSameKey"]
                /\ (key = CellAt(page, index).key /\ len # CellAt(page, index).payload_size) =>
                        r = [page |-> page, res |-> "UpdateNotSameSize"]

\* a page with cells of both payload lengths, so that a call on it can miss the key
\* of a cell and another the size
C25_Witness ==
    /\ PageCanCall
    /\ pageRes \in {"UpdateNotSameKey", "UpdateNotSameSize"}
    /\ Len(page.cell_pointer_array) = 2
    /\ CellAt(page, 0).payload_size # CellAt(page, 1).payload_size

IsChild(c) == c # INVALID_PAGE_NUM

\* Page::children_iter: the left_child of every cell, then right_pointer, without
\* the entries that are INVALID_PAGE_NUM; -1 stands for a cell that fails to decode
ChildrenIter(p) ==
    LET cells == CellsIter(p, 0)
        n     == Len(cells)
    IN  SelectSeq([i \in 1..(n + 1) |->
                      IF i = n + 1 THEN p.header.right_pointer
                      ELSE IF cells[i].ok THEN cells[i].left_child ELSE -1],
                  IsChild)

\* a split allots at most two page numbers and writes the root or a parent: the
\* pages the last RecentSpan page numbers went to, and the root, are the pages
\* that can differ from those of the state before
RecentSpan == 3

RecentPages == {root_page_num} \cup {pn \in Slots : pn + RecentSpan >= pager.num_pages}

\* what move_last_left_child_to_right_pointer is to make of a page p with cells
MovedAs(p, q) ==
    LET n == Len(p.cell_pointer_array) IN
    /\ q.header.right_pointer = CellAt(p, n - 1).left_child
    /\ q.cell_pointer_array = SubSeq(p.cell_pointer_array, 1, n - 1)
    /\ q.header.num_cells = p.header.num_cells - 1
    /\ \A i \in 0..(n - 2) : CellAt(q, i) = CellAt(p, i)
    /\ (p.header.right_pointer = INVALID_PAGE_NUM) => (ChildrenIter(q) = ChildrenIter(p))

\* C26: on an interior page with cells move_last_left_child_to_right_pointer sets
\* right_pointer to the left_child of the cell with the largest key, removes that
\* cell and leaves the other cells as they were; when right_pointer was
\* INVALID_PAGE_NUM the children of the page are the same before and after.  On a
\* page without cells it fails and changes nothing.
C26_MoveLast ==
    /\ \A g \in Garbage :
            MoveLastLeftChildToRightPointer(PageNew(Interior), g)
                = [page |-> PageNew(Interior), res |-> "CannotGetFirstOrLastKey"]
    /\ Alive =>
        \A pn \in RecentPages :
            (IsCached(pn) /\ CachedPage(pn).header.page_type = Interior) =>
                \A g \in Garbage :
                    LET r == MoveLastLeftChildToRightPointer(CachedPage(pn), g) IN
                    IF CachedPage(pn).cell_pointer_array = <<>>
                    THEN r = [page |-> CachedPage(pn), res |-> "CannotGetFirstOrLastKey"]
                    ELSE r.res = "Ok" /\ MovedAs(CachedPage(pn), r.page)

\* the interior root was split: page 3 holds its left half, whose last cell the
\* move took out (cells_start lies below the cells left) and whose right_pointer
\* is that cell's left_child; the cells left point to a child
C26_Witness ==
    /\ res = "Ok"
    /\ pager.num_pages = 5
    /\ IsCached(3)
    /\ CachedPage(3).header.page_type = Interior
    /\ CachedPage(3).cell_pointer_array # <<>>
    /\ CachedPage(3).header.num_cells = Len(CachedPage(3).cell_pointer_array)
    /\ CachedPage(3).header.cells_start < LowestOffset(CachedPage(3))
    /\ CachedPage(3).header.right_pointer = INVALID_PAGE_NUM
    /\ ChildrenIter(CachedPage(3)) # <<>>

\* the halves of a split of page p hold its first ceil(n/2) cells and the rest
CeilSplit(p, sp) ==
    LET n == Len(p.cell_pointer_array)
        half == (n + 1) \div 2
    IN  /\ CellsIn(sp.left) = SubSeq(CellsIn(p), 1, half)
        /\ CellsIn(sp.right) = SubSeq(CellsIn(p), half + 1, n)

\* C27: the split of a page of n cells puts its first ceil(n/2) cells, in key
\* order, into the left page and the other n - ceil(n/2) cells into the right
\* page, for even and for odd n.
C27_SplitCeil ==
    \A g \in PageGarbage :
        \A sp \in {SplitPage(page, g)} : (sp.res = "Ok") => CeilSplit(page, sp)

\* the halves of a split of page p are of its kind, the right one with the
\* right_pointer of p and the left one with none
SplitKinds(p, sp) ==
    /\ sp.left.header.page_type = p.header.page_type
    /\ sp.right.header.page_type = p.header.page_type
    /\ sp.right.header.right_pointer = p.header.right_pointer
    /\ sp.left.header.right_pointer = INVALID_PAGE_NUM

\* C28: a split gives two pages of the kind of the page that was split; the
\* right page has the right_pointer of that page and the left page has
\* INVALID_PAGE_NUM as its right_pointer.
C28_SplitPointers ==
    Alive =>
        \A pn \in RecentPages :
            IsCached(pn) =>
                \A g \in PageGarbage :
                    \A sp \in {SplitPage(CachedPage(pn), g)} :
                        (sp.res = "Ok") => SplitKinds(CachedPage(pn), sp)

\* the interior root was split: its halves are the interior pages 3 and 4, and
\* page 4, the right half, has the right_pointer the root had, a leaf
C28_Witness ==
    /\ res = "Ok"
    /\ pager.num_pages = 5
    /\ IsCached(3) /\ CachedPage(3).header.page_type = Interior
    /\ IsCached(4) /\ CachedPage(4).header.page_type = Interior
    /\ CachedPage(4).header.right_pointer \in 1..2
    /\ \A g \in PageGarbage : SplitPage(CachedPage(4), g).res = "Ok"

\* the keys of the cells of page p
KeysOf(p) == {CellsIn(p)[i].key : i \in 1..Len(p.cell_pointer_array)}

\* pager q is pager pg after its full root, whose halves are sp, was split for
\* the insert of key: page n is the first unused page number of pg
RootSplitAs(pg, q, sp, key) ==
    LET n == pg.num_pages
        lk == CellsIn(sp.left)[Len(CellsIn(sp.left))].key
    IN  /\ q.num_pages = n + 2
        /\ q.pages_cache[root_page_num] # None
        /\ q.pages_cache[root_page_num][1].header.page_type = Interior
        /\ q.pages_cache[root_page_num][1].header.num_cells = 1
        /\ CellsIn(q.pages_cache[root_page_num][1])
                = <<[key |-> lk, payload |-> <<>>, left_child |-> n]>>
        /\ q.pages_cache[root_page_num][1].header.right_pointer = n + 1
        /\ n + 1 \in Slots
        /\ q.pages_cache[n] # None
        /\ q.pages_cache[n + 1] # None
        /\ q.pages_cache[n][1].header.page_type = sp.left.header.page_type
        /\ q.pages_cache[n + 1][1].header.page_type = sp.right.header.page_type
        /\ KeysOf(q.pages_cache[n][1]) \subseteq KeysOf(sp.left) \cup {key}
        /\ KeysOf(q.pages_cache[n + 1][1]) = KeysOf(sp.right) \cup {k \in {key} : k >= lk}

\* the insert of key with a payload of len bytes through a cursor at the root
\* finds the root full and splits it
RootSplits(pg, key, len, g) ==
    /\ pg.pages_cache[root_page_num] # None
    /\ pg.num_pages < TABLE_MAX_PAGES
    /\ PageInsert(pg.pages_cache[root_page_num][1], key, RowBytes(key, len), None, g).res
            = "PageFull"

InteriorIn(q) ==
    {pn \in Slots : /\ q.pages_cache[pn] # None
                    /\ q.pages_cache[pn][1].header.page_type = Interior}

\* pager q and result rs are what the insert of key leaves of pager pg when the
\* full page P, not the root, was split into the halves sp: P keeps the left
\* half, page n, the first unused number of pg, has the right half, an interior
\* page has the routing cell of the left half and an interior page points to n
NonRootSplitAs(pg, q, rs, P, sp, key) ==
    LET n == pg.num_pages
        lk == CellsIn(sp.left)[Len(CellsIn(sp.left))].key
    IN  /\ rs = "Ok"
        /\ q.pages_cache[P] # None
        /\ q.pages_cache[n] # None
        /\ q.pages_cache[P][1].header.page_type = sp.left.header.page_type
        /\ q.pages_cache[n][1].header.page_type = sp.right.header.page_type
        /\ KeysOf(q.pages_cache[P][1]) \subseteq KeysOf(sp.left) \cup {key}
        /\ KeysOf(q.pages_cache[n][1]) = KeysOf(sp.right) \cup {k \in {key} : k >= lk}
        /\ \E pp \in InteriorIn(q) :
                \E i \in 1..Len(q.pages_cache[pp][1].cell_pointer_array) :
                    CellsIn(q.pages_cache[pp][1])[i]
                        = [key |-> lk, payload |-> <<>>, left_child |-> P]
        /\ \E pp \in InteriorIn(q) :
                \E i \in 1..Len(ChildrenIter(q.pages_cache[pp][1])) :
                    ChildrenIter(q.pages_cache[pp][1])[i] = n

\* C30: when the insert of a row finds the leaf the descent ends at full, and
\* that leaf is not the root, the insert succeeds: the left half stays at the
\* leaf's page number, the right half is at the new page n, the parent level
\* has the routing cell (last key of the left half, no payload, left_child the
\* leaf's number) and the entry that pointed to the leaf points to n.
C30_NonRootSplit ==
    Alive =>
        \A key \in Keys, len \in PayloadLens, g \in Garbage :
            \A pos \in {GetLeafInsertionPosition(pager, CursorNew, key, g)} :
                (/\ pos.res = "Ok"
                 /\ pos.cursor.page_num # root_page_num
                 /\ pos.pager.pages_cache[pos.cursor.page_num] # None
                 /\ pos.pager.num_pages < TABLE_MAX_PAGES
                 /\ PageInsert(pos.pager.pages_cache[pos.cursor.page_num][1], key,
                               RowBytes(key, len), None, g).res = "PageFull") =>
                    \A full \in {PageInsert(pos.pager.pages_cache[pos.cursor.page_num][1],
                                             key, RowBytes(key, len), None, g).page} :
                        \A r \in {TableInsertOp(pager, key, RowBytes(key, len), g)} :
                            NonRootSplitAs(pos.pager, r.pager, r.res, pos.cursor.page_num,
                                           SplitPage(full, g), key)

\* the pages of a descent in the order they were visited: the parents, then the
\* page the cursor names
PathOf(cursor) == Append(cursor.parents_stack, cursor.page_num)

\* the descent for key that left pager q and the cursor went from the root
\* through interior pages, each step to the page the routing cell or
\* right_pointer of the page before names, and ended at a leaf; pg is the pager
\* it started from
DescentAs(pg, q, cursor, key, g) ==
    /\ PathOf(cursor)[1] = root_page_num
    /\ \A i \in 1..Len(PathOf(cursor)) :
            /\ PathOf(cursor)[i] \in Slots
            /\ q.pages_cache[PathOf(cursor)[i]] # None
    /\ q.pages_cache[cursor.page_num][1].header.page_type = Leaf
    /\ \A i \in 1..Len(cursor.parents_stack) :
            /\ q.pages_cache[PathOf(cursor)[i]][1].header.page_type = Interior
            /\ RouteByCell(q.pages_cache[PathOf(cursor)[i]][1], key, g)
                    = [res |-> "Ok", page_num |-> PathOf(cursor)[i + 1]]
    /\ q.num_pages = pg.num_pages
    /\ q.file = pg.file
    /\ \A pn \in Slots :
            (pg.pages_cache[pn] # None) => (q.pages_cache[pn] = pg.pages_cache[pn])

\* C31: a descent from a new cursor at the root that returns Ok names a leaf
\* page, its parent stack holds the interior pages visited from the root on,
\* each the parent of the next page of the path by its routing cell for the key
\* or its right_pointer, and the cache is as before but for pages loaded.
C31_Descent ==
    Alive =>
        \A key \in Keys, g \in Garbage :
            \A pos \in {GetLeafInsertionPosition(pager, CursorNew, key, g)} :
                (pos.res = "Ok") => DescentAs(pager, pos.pager, pos.cursor, key, g)

\* C32: a descent from a new cursor at the root for a key the leaf it ends at
\* holds fails with DuplicateKey; one that returns Ok was for a key the leaf
\* does not hold, and the cursor's cell_ptr_pos is the index find_partition
\* gives for the key in that leaf.
C32_DescentSlot ==
    Alive =>
        \A key \in Keys, g \in Garbage :
            \A pos \in {GetLeafInsertionPosition(pager, CursorNew, key, g)} :
                (pos.res = "Ok") =>
                    \A leaf \in {pos.pager.pages_cache[pos.cursor.page_num][1]} :
                        /\ key \notin KeysOf(leaf)
                        /\ pos.cursor.cell_ptr_pos = FindPartition(leaf, key, g).partition

\* C33: on a table driven only by Table::insert, a descent from a new cursor
\* at the root followed by Pager::insert, no insert ends with ParentStackEmpty,
\* also when the retry after a split splits again.
C33_StackNeverEmpty == res # "ParentStackEmpty"

(***************************************************************************)
(* FlushSpec: one table driven through Table::insert and Table::flush on a *)
(* file whose writes can fail.  A flush call is given the page index at    *)
(* which the file answers seek or write_all with an I/O error, if any.     *)
(***************************************************************************)
FlushInit == EngineStart /\ PageStart /\ CodecStart /\ DbStart

\* Table::flush: flush_all of the table's pager, its error mapped to FlushError
TableFlush(bad) ==
    /\ Alive
    /\ res # "Flushed"
    /\ \E r \in {FlushAllIo(pager, bad)} :
        /\ pager' = r.pager
        /\ res' = IF r.res = "Ok" THEN "Flushed" ELSE r.res
    /\ UNCHANGED <<okRows, closedRows, pageVars, codecVars, dbVars>>

FlushNext ==
    \/ \E rowid \in Keys, len \in PayloadLens, g \in Garbage : TableInsert(rowid, len, g)
    \/ \E bad \in FailSlots : TableFlush(bad)

FlushSpec == FlushInit /\ [][FlushNext]_vars

\* C34: flush_all writes every populated slot to its place in the file, and
\* when the write of a slot fails with an I/O error it returns that error: in
\* every state, a flush on a file that takes every write returns Ok with every
\* populated slot in the file, and a flush on a file that fails at a populated
\* slot returns the I/O error.
C34_FlushReturnsIo ==
    Alive =>
        \A bad \in FailSlots :
            \A r \in {FlushAllIo(pager, bad)} :
                IF bad \in Slots /\ pager.pages_cache[bad] # None
                THEN r.res = "Io"
                ELSE /\ r.res = "Ok"
                     /\ \A i \in Slots :
                            (pager.pages_cache[i] # None) =>
                                (r.pager.file[i] = Some(pager.pages_cache[i][1].data))

\* the populated cache slots of pager pg
Populated(pg) == {pn \in Slots : pg.pages_cache[pn] # None}

\* the insert that took pager pg to pager q split the root: the root of q is an
\* interior page whose one cell points to a page number q allotted
RootWasSplit(pg, q) ==
    /\ q.pages_cache[root_page_num] # None
    /\ q.pages_cache[root_page_num][1].header.page_type = Interior
    /\ Len(q.pages_cache[root_page_num][1].cell_pointer_array) = 1
    /\ CellsIn(q.pages_cache[root_page_num][1])[1].left_child >= pg.num_pages
    /\ CellsIn(q.pages_cache[root_page_num][1])[1].left_child < q.num_pages

\* the split events of the insert that took pager pg to pager q: every split
\* adds one page to the tree, and the split of the root one more, the new root
\* taking the place of the page that was split
SplitEvents(pg, q) ==
    Cardinality(Populated(q)) - Cardinality(Populated(pg))
        - (IF RootWasSplit(pg, q) THEN 1 ELSE 0)

\* C35: an insert that returns Ok adds to num_pages one page number for every
\* split event it went through, the split of the root included, and nothing
\* when no page was split.
C35_OnePerSplit ==
    [][(res' = "Ok") => (pager'.num_pages - pager.num_pages = SplitEvents(pager, pager'))]_vars

\* the interior page at pn has a right_pointer that is a page of the pager and
\* a routing cell, one whose payload is empty
InteriorShaped(pn) ==
    /\ CachedPage(pn).header.right_pointer # INVALID_PAGE_NUM
    /\ CachedPage(pn).header.right_pointer < pager.num_pages
    /\ \E i \in 1..Len(CachedPage(pn).cell_pointer_array) :
            CellsIn(CachedPage(pn))[i].payload = <<>>

\* the leaf page at pn points nowhere: not by right_pointer, not by a cell
LeafShaped(pn) ==
    /\ CachedPage(pn).header.right_pointer = INVALID_PAGE_NUM
    /\ \A i \in 1..Len(CachedPage(pn).cell_pointer_array) :
            CellsIn(CachedPage(pn))[i].left_child = INVALID_PAGE_NUM

\* C36: after an insert that returned Ok, every interior page of the tree has a
\* right_pointer below num_pages other than INVALID_PAGE_NUM and at least one
\* routing cell with an empty payload, and every leaf page has right_pointer
\* INVALID_PAGE_NUM and left_child INVALID_PAGE_NUM in all its cells.
C36_PageShapes ==
    (res = "Ok") =>
        /\ \A pn \in InteriorPages : InteriorShaped(pn)
        /\ \A pn \in LeafPages : LeafShaped(pn)

\* the root was split by an insert that returned Ok: the tree is an interior
\* root with a routing cell above two leaves that hold rows
C36_Witness ==
    /\ res = "Ok"
    /\ InteriorPages = {root_page_num}
    /\ Cardinality(LeafPages) = 2
    /\ \A pn \in LeafPages : CachedPage(pn).cell_pointer_array # <<>>
    /\ InteriorShaped(root_page_num)

\* the places that point to page pn: the interior page and the position among
\* its children, its cells' left_child in order and then its right_pointer
RefsTo(pn) ==
    UNION {{<<pp, i>> : i \in {j \in 1..Len(ChildrenIter(CachedPage(pp))) :
                                    ChildrenIter(CachedPage(pp))[j] = pn}} :
            pp \in InteriorIn(pager)}

\* the pages any interior page of the pager points to
Referenced ==
    UNION {SeqRange(ChildrenIter(CachedPage(pp))) : pp \in InteriorIn(pager)}

RECURSIVE LevelPages(_)
\* the pages k steps below the root
LevelPages(k) ==
    IF k = 0 THEN {root_page_num}
    ELSE UNION {SeqRange(ChildrenIter(CachedPage(pp))) :
                    pp \in {q \in LevelPages(k - 1) :
                                IsCached(q) /\ CachedPage(q).header.page_type = Interior}}

\* the depths at which a leaf is found below the root
LeafDepths ==
    {k \in 0..TreeFuel :
        \E pn \in LevelPages(k) : IsCached(pn) /\ CachedPage(pn).header.page_type = Leaf}

\* the pages of the pager form a tree below the root
TreeShaped ==
    /\ RefsTo(root_page_num) = {}
    /\ \A pn \in 0..(pager.num_pages - 1) :
            (pn # root_page_num) => (Cardinality(RefsTo(pn)) = 1)
    /\ \A pn \in Referenced : pn < pager.num_pages /\ IsCached(pn)
    /\ LevelPages(TreeFuel) = {}
    /\ Cardinality(LeafDepths) = 1

\* C37: after any sequence of inserts the pages of the pager form a tree: every
\* page number below num_pages but the root is pointed to by exactly one
\* left_child or right_pointer of one interior page, the root by none, no page
\* is below itself, every page pointed to is below num_pages and in its slot,
\* and all leaves are at one depth.
C37_TreeShape == Alive => TreeShaped

(***************************************************************************)
(* DecodeSpec: LeafCell::try_from applied to byte strings that no encoder  *)
(* made: too short for a cell, or with any value in the payload_size field *)
(***************************************************************************)
\* the lengths of the inputs that are shorter than the fixed part of a cell
ShortLens == 0..(PAYLOAD_SIZE_SIZE + ID_SIZE + LEFT_CHILD_SIZE - 1)
\* the values of the payload_size field of the longer inputs
MaxDeclared == 3
DeclaredSizes == (0..MaxDeclared) \cup {2034, 65535}
\* the bytes that follow the payload_size field in the longer inputs: from the
\* fixed part of a cell alone to a payload of more than MaxDeclared bytes
MaxExtra == 4
BodyLens == {ID_SIZE + LEFT_CHILD_SIZE + n : n \in 0..MaxExtra} \cup {2046}

RawInputs ==
    {Rep(b, n) : b \in CodecBytes, n \in ShortLens}
        \cup {RCat(Runs(ToBE(ps, PAYLOAD_SIZE_SIZE)), Rep(b, n)) :
                    ps \in DeclaredSizes, b \in CodecBytes, n \in BodyLens}

DecodeInit ==
    /\ EngineStart
    /\ PageStart
    /\ codec \in {[CodecIdle EXCEPT !.stage = "bytes", !.bytes = raw] : raw \in RawInputs}
    /\ DbStart

DecodeNext == CodecTryFrom

DecodeSpec == DecodeInit /\ [][DecodeNext]_vars

\* the value of the payload_size field of an input of at least two bytes
Declared(bytes) == FromBE(Field(bytes, 0, PAYLOAD_SIZE_SIZE))

\* the length of the fixed part of a cell: payload_size, id and left_child
CellFixed == PAYLOAD_SIZE_SIZE + ID_SIZE + LEFT_CHILD_SIZE

\* C38: the decoder rejects every input of fewer than 14 bytes and every input
\* whose payload_size field asks for more payload than the input has after
\* the fixed part; what it accepts it has read from inside the input.
C38_DecodeRejects ==
    (codec.stage = "decoded") =>
        /\ (RLen(codec.bytes) < CellFixed) => ~codec.decoded.ok
        /\ (/\ RLen(codec.bytes) >= CellFixed
            /\ Declared(codec.bytes) > RLen(codec.bytes) - CellFixed) => ~codec.decoded.ok
        /\ codec.decoded.ok =>
                /\ CellFixed + codec.decoded.cell.payload_size <= RLen(codec.bytes)
                /\ RLen(codec.decoded.cell.data) = codec.decoded.cell.payload_size

\* an input long enough for the fixed part whose payload_size field asks for
\* more than is left was decoded, and rejected
C38_Witness ==
    /\ codec.stage = "decoded"
    /\ RLen(codec.bytes) >= CellFixed
    /\ Declared(codec.bytes) > RLen(codec.bytes) - CellFixed
    /\ Declared(codec.bytes) <= RLen(codec.bytes) - PAYLOAD_SIZE_SIZE - ID_SIZE
    /\ ~codec.decoded.ok

====
